---- MODULE Spec2Model ----
(***************************************************************************)
(* Model of src/src/utils/environment.py (class Environment): the feature  *)
(* registry, the feature and constraint functions, the raw-feature         *)
(* adapter and the analytic forward kinematics.                            *)
(*                                                                         *)
(* Numbers.  Joint angles are integers counting quarter turns (pi/2), so   *)
(* that sin and cos are exact.  Cartesian x, y, z of the end-effector and  *)
(* the object centers are integers counting cells of 0.05 m.  The z of     *)
(* link 10 read by table_constraint counts 0.0001 m.  DH lengths count     *)
(* 0.00001 m.  A real feature value is kept exactly as the record          *)
(* [p, s, r, q] that stands for (p + s*sqrt(r)) / q.                       *)
(***************************************************************************)
EXTENDS Integers, Sequences, FiniteSets, TLC

----------------------------------------------------------------------------
(* Exact reals (p + s*sqrt(r)) / q, q > 0, s in {-1, 0, 1}, r >= 0.        *)

R(p, s, r, q) == [p |-> p, s |-> s, r |-> r, q |-> q]
Rat(n) == R(n, 0, 0, 1)
Zero == Rat(0)

Sgn(n) == IF n > 0 THEN 1 ELSE IF n < 0 THEN -1 ELSE 0
Abs(n) == IF n < 0 THEN -n ELSE n

\* sign of the real x
Sign(x) ==
    IF x.s = 0 \/ x.r = 0 THEN Sgn(x.p)
    ELSE IF x.p = 0 \/ Sgn(x.p) = x.s THEN x.s
    ELSE IF x.p * x.p > x.r THEN Sgn(x.p)
    ELSE IF x.p * x.p < x.r THEN x.s
    ELSE 0

Pos(x) == Sign(x) > 0
IsZero(x) == Sign(x) = 0
Neg(x) == R(-x.p, -x.s, x.r, x.q)
\* x / k for an integer k > 0
DivBy(x, k) == R(x.p, x.s, x.r, x.q * k)
\* x * (a / b) for integers a >= 0, b > 0
Scale(x, a, b) == R(x.p * a, x.s, x.r * a * a, x.q * b)

\* sign of u*sqrt(U) + v*sqrt(V) for u, v in {-1, 0, 1} and U, V >= 0
SignRoots(u, U, v, V) ==
    IF u = 0 \/ U = 0 THEN (IF V = 0 THEN 0 ELSE v)
    ELSE IF v = 0 \/ V = 0 THEN u
    ELSE IF u = v THEN u
    ELSE u * Sgn(U - V)

\* sign of a + u*sqrt(U) + v*sqrt(V): when a and the sum of the roots
\* disagree in sign, a^2 is compared with (u*sqrt(U) + v*sqrt(V))^2
SignSum(a, u, U, v, V) ==
    LET t == SignRoots(u, U, v, V)
        UU == IF u = 0 THEN 0 ELSE U
        VV == IF v = 0 THEN 0 ELSE V
        c == Sign(R(a * a - UU - VV, -(u * v), 4 * UU * VV, 1))
    IN  IF a = 0 THEN t
        ELSE IF t = 0 \/ t = Sgn(a) THEN Sgn(a)
        ELSE IF c > 0 THEN Sgn(a)
        ELSE IF c < 0 THEN t
        ELSE 0

\* x < y
Less(x, y) ==
    IF y.s = 0 \/ y.r = 0
      THEN Sign(R(y.p * x.q - x.p * y.q, -x.s, x.r * y.q * y.q, 1)) > 0
    ELSE IF x.s = 0 \/ x.r = 0
      THEN Sign(R(y.p * x.q - x.p * y.q, y.s, y.r * x.q * x.q, 1)) > 0
    ELSE SignSum(y.p * x.q - x.p * y.q, y.s, y.r * x.q * x.q,
                 -x.s, x.r * y.q * y.q) > 0

RMin(x, y) == IF Less(y, x) THEN y ELSE x
SameReal(x, y) == ~Less(x, y) /\ ~Less(y, x)

\* the integer root of a perfect square n
Root(n) == CHOOSE k \in 0..n : k * k = n

----------------------------------------------------------------------------
(* Vectors: a waypoint is [torch |-> is it a torch tensor, v |-> tuple].   *)

PI == 2

Nd(v) == [torch |-> FALSE, v |-> v]
Tensor(v) == [torch |-> TRUE, v |-> v]

RECURSIVE SumSeq(_)
SumSeq(s) ==
    IF Len(s) = 0 THEN 0
    ELSE IF Len(s) = 1 THEN s[1]
    ELSE SumSeq(SubSeq(s, 1, Len(s) \div 2)) + SumSeq(SubSeq(s, Len(s) \div 2 + 1, Len(s)))

RECURSIVE Flatten(_)
Flatten(ss) == IF ss = <<>> THEN <<>> ELSE Head(ss) \o Flatten(Tail(ss))

\* what a call leaves behind: the returned value (or the exception raised),
\* the robot's configuration, the configurations under which poses were
\* read, the caller's waypoint buffer and the object-center map
Eff(ret, exc, dof, reads, waypt, centers) ==
    [ret |-> ret, exc |-> exc, dof |-> dof, reads |-> reads,
     waypt |-> waypt, centers |-> centers]

Raised(e) == e.exc # "none"

----------------------------------------------------------------------------
(* get_torch_transforms: the analytic forward kinematics.                  *)

CosQ(k) == <<1, 0, -1, 0>>[(k % 4) + 1]
SinQ(k) == <<0, 1, 0, -1>>[(k % 4) + 1]

\* link distances D and joint displacement errors e, in 0.00001 m
DH_D == <<15675, 11875, 20500, 20500, 20730, 10375, 10375>>
DH_e == <<160, 980>>
\* link twists alpha, in quarter turns
DH_alpha == <<1, 1, 1, 1, 1, 1, 2>>

sign1 == << <<-1, 1, -1, -1>>, <<1, -1, 1, 1>>, <<-1, 1, -1, -1>>, <<1, 1, 1, 1>> >>
sign2 == << <<1, -1, -1, -1>>, <<-1, 1, 1, 1>>, <<1, -1, -1, -1>>, <<1, 1, 1, 1>> >>
sign3 == << <<1, -1, 1, -1>>, <<-1, 1, -1, 1>>, <<1, -1, 1, -1>>, <<1, 1, 1, 1>> >>

\* link transform given theta, alpha and D (a is assumed to be 0)
transform(theta, alpha, D) ==
    << <<CosQ(theta), -SinQ(theta) * CosQ(alpha), SinQ(theta) * SinQ(alpha), 0>>,
       <<SinQ(theta), CosQ(theta) * CosQ(alpha), -CosQ(theta) * SinQ(alpha), 0>>,
       <<0, SinQ(alpha), CosQ(alpha), D>>,
       <<0, 0, 0, 1>> >>

\* columns 0..i-1, j, i+1..j-1, i, j+1.. of T (i < j, counted from 0)
SwapCol(i, j, c) == IF c = i + 1 THEN j + 1 ELSE IF c = j + 1 THEN i + 1 ELSE c
SwapRow(r, i, j) == <<r[SwapCol(i, j, 1)], r[SwapCol(i, j, 2)], r[SwapCol(i, j, 3)],
                      r[SwapCol(i, j, 4)]>>
\* faulty variant: the columns are left where they are
swap_cols_Skipped(T, i, j) == T

swap_cols(T, i, j) ==
    <<SwapRow(T[1], i, j), SwapRow(T[2], i, j), SwapRow(T[3], i, j), SwapRow(T[4], i, j)>>

Dot(r, B, c) == r[1] * B[1][c] + r[2] * B[2][c] + r[3] * B[3][c] + r[4] * B[4][c]
MulRow(r, B) == <<Dot(r, B, 1), Dot(r, B, 2), Dot(r, B, 3), Dot(r, B, 4)>>
matmul(A, B) == <<MulRow(A[1], B), MulRow(A[2], B), MulRow(A[3], B), MulRow(A[4], B)>>

\* element-wise product
HadamardRow(r, s) == <<r[1] * s[1], r[2] * s[2], r[3] * s[3], r[4] * s[4]>>
Hadamard(A, S) == <<HadamardRow(A[1], S[1]), HadamardRow(A[2], S[2]),
                    HadamardRow(A[3], S[3]), HadamardRow(A[4], S[4])>>

\* the transforms of the 7 joints for the joint angles w (a 7-tuple)
get_torch_transforms(w) ==
    LET T01a == transform(w[1], DH_alpha[1], -DH_D[1])
        T01  == transform(w[1], DH_alpha[1], -(DH_D[1] + DH_D[2]))
        T12  == transform(w[2], DH_alpha[2], -DH_e[1])
        T02  == matmul(T01, T12)
        T23a == transform(w[3], DH_alpha[3], -DH_D[3])
        T03a == matmul(T02, T23a)
        T23  == transform(w[3], DH_alpha[3], -(DH_D[3] + DH_D[4]))
        T34a == transform(w[4], DH_alpha[4], 0)
        T03  == matmul(T02, T23)
        T04a == matmul(T03, T34a)
        T34  == transform(w[4], DH_alpha[4], -(DH_e[1] + DH_e[2]))
        T45a == transform(w[5], DH_alpha[5], -DH_D[5])
        T04  == matmul(T03, T34)
        T05a == matmul(T04, T45a)
        T45  == transform(w[5], DH_alpha[5], -(DH_D[5] + DH_D[6]))
        T56  == transform(w[6], DH_alpha[6], 0)
        T05  == matmul(T04, T45)
        T06  == matmul(T05, T56)
        T67  == transform(w[7], DH_alpha[7], -DH_D[7])
        T07  == matmul(T06, T67)
    IN  << Hadamard(swap_cols(T01a, 1, 2), sign1),
           Hadamard(swap_cols(T02, 1, 2), sign2),
           Hadamard(swap_cols(T03a, 1, 2), sign2),
           Hadamard(swap_cols(T04a, 1, 2), sign1),
           Hadamard(swap_cols(T05a, 1, 2), sign2),
           Hadamard(swap_cols(T06, 1, 2), sign1),
           Hadamard(T07, sign3) >>

\* Tall[:, :3, 3] and Tall[:, :3, :3], flattened
TorchCoords(Tall) ==
    Flatten([k \in 1..Len(Tall) |-> <<Tall[k][1][4], Tall[k][2][4], Tall[k][3][4]>>])
TorchOrientations(Tall) ==
    Flatten([k \in 1..Len(Tall) |->
        Flatten([row \in 1..3 |-> <<Tall[k][row][1], Tall[k][row][2], Tall[k][row][3]>>])])

----------------------------------------------------------------------------
(* The simulated robot (OpenRAVE and openrave_utils, outside this file):   *)
(* poses are a function of the configuration last applied.                 *)

\* robot.SetDOFValues(q): the configuration the robot holds afterwards
SetDOFValues(q) == q

\* robotToCartesian(robot): the positions of the 7 links, the last one the
\* end-effector, in cells
robotToCartesian(q) ==
    [i \in 1..7 |-> IF i = 7 THEN <<q[1], q[3], q[2]>> ELSE <<0, 0, i>>]

\* robotToOrientation(robot): one orientation code per link
robotToOrientation(q) == [i \in 1..7 |-> IF i = 7 THEN q[6] % 4 ELSE 0]

\* robot.GetLinks()[7].GetTransform()[:3,0]: the end-effector's x axis
EE_Rx(q) == <<SinQ(q[6]), 0, CosQ(q[6])>>

\* robot.GetLinks()[10].GetTransform()[2][3], in 0.0001 m
Link10_z(q) == 508 * q[2]

----------------------------------------------------------------------------
(* Feature functions.  Each takes the caller's waypoint, the robot's       *)
(* configuration before the call and the object-center map.                *)

LaptopThreshold == 6
HumanThreshold == 8
ProxemicsThreshold == 6
ObjectThreshold == 4
TABLE_FLOOR == -1016
INFEASIBLE == 10000

\* if len(waypt) < 10: waypt = np.append(waypt.reshape(7), [0,0,0]);
\* waypt[2] += math.pi -- a new array: the caller's buffer is not written
PadOffset(v) ==
    LET padded == v \o <<0, 0, 0>>
    IN  [padded EXCEPT ![3] = @ + PI]

\* the configuration a feature function applies for the waypoint vector v,
\* and whether reshape(7) accepts v
ReshapeOk(v) == Len(v) >= 10 \/ Len(v) = 7
Applied(v) == IF Len(v) < 10 THEN PadOffset(v) ELSE v

SqNorm2(a, b) == (a[1] - b[1]) * (a[1] - b[1]) + (a[2] - b[2]) * (a[2] - b[2])

efficiency_features(waypt, dof, centers) ==
    LET v == waypt.v
        n == Len(v) - 7
    IN  IF Len(v) >= 7 /\ (n = 7 \/ n = 1)
        THEN Eff(Rat(SumSeq([i \in 1..7 |->
                    (v[i] - v[7 + IF n = 1 THEN 1 ELSE i])
                  * (v[i] - v[7 + IF n = 1 THEN 1 ELSE i])])),
                 "none", dof, <<>>, waypt, centers)
        ELSE Eff(Zero, "ValueError", dof, <<>>, waypt, centers)

origin_features(waypt, dof, centers) ==
    IF ~ReshapeOk(waypt.v) THEN Eff(Zero, "ValueError", dof, <<>>, waypt, centers)
    ELSE LET q == SetDOFValues(Applied(waypt.v))
             coords == robotToCartesian(q)
             EE == coords[7]
         IN  Eff(R(0, 1, EE[1] * EE[1] + EE[2] * EE[2] + EE[3] * EE[3], 1),
                 "none", q, <<q>>, waypt, centers)

table_features(waypt, dof, centers) ==
    IF ~ReshapeOk(waypt.v) THEN Eff(Zero, "ValueError", dof, <<>>, waypt, centers)
    ELSE LET q == SetDOFValues(Applied(waypt.v))
             coords == robotToCartesian(q)
         IN  Eff(Rat(coords[7][3]), "none", q, <<q>>, waypt, centers)

coffee_features(waypt, dof, centers) ==
    IF ~ReshapeOk(waypt.v) THEN Eff(Zero, "ValueError", dof, <<>>, waypt, centers)
    ELSE LET q == SetDOFValues(Applied(waypt.v))
             Rx == EE_Rx(q)
         IN  Eff(Rat(1 - (Rx[1] * 0 + Rx[2] * 0 + Rx[3] * 1)),
                 "none", q, <<q, q>>, waypt, centers)

\* faulty variant: dist is returned without the sign change
ProximityValue_Unnegated(EE_xy, target_xy, threshold) ==
    LET dist == R(-threshold, 1, SqNorm2(EE_xy, target_xy), 1)
    IN  IF Pos(dist) THEN Zero ELSE dist

\* dist = norm(EE_xy - target_xy) - threshold; 0 if dist > 0, else -dist
ProximityValue(EE_xy, target_xy, threshold) ==
    LET dist == R(-threshold, 1, SqNorm2(EE_xy, target_xy), 1)
    IN  IF Pos(dist) THEN Zero ELSE Neg(dist)

laptop_features(waypt, dof, centers) ==
    IF ~ReshapeOk(waypt.v) THEN Eff(Zero, "ValueError", dof, <<>>, waypt, centers)
    ELSE LET q == SetDOFValues(Applied(waypt.v))
             coords == robotToCartesian(q)
         IN  IF "LAPTOP_CENTER" \notin DOMAIN centers
             THEN Eff(Zero, "KeyError", q, <<q>>, waypt, centers)
             ELSE Eff(ProximityValue(coords[7], centers["LAPTOP_CENTER"], LaptopThreshold),
                      "none", q, <<q>>, waypt, centers)

human_features(waypt, dof, centers) ==
    IF ~ReshapeOk(waypt.v) THEN Eff(Zero, "ValueError", dof, <<>>, waypt, centers)
    ELSE LET q == SetDOFValues(Applied(waypt.v))
             coords == robotToCartesian(q)
         IN  IF "HUMAN_CENTER" \notin DOMAIN centers
             THEN Eff(Zero, "KeyError", q, <<q>>, waypt, centers)
             ELSE Eff(ProximityValue(coords[7], centers["HUMAN_CENTER"], HumanThreshold),
                      "none", q, <<q>>, waypt, centers)

\* EE_coord_xy[1] /= 3; human_xy[1] /= 3 (both on copies), then
\* dist = norm(EE_coord_xy - human_xy) - 0.3.  In thirds of a cell the scaled
\* vectors are <<3x, y>>, and dist = (sqrt(|.|^2) - 3 * threshold) / 3.
ProxemicsValue(EE_xy, human_xy) ==
    LET EE3 == <<3 * EE_xy[1], EE_xy[2]>>
        human3 == <<3 * human_xy[1], human_xy[2]>>
        dist == R(-3 * ProxemicsThreshold, 1, SqNorm2(EE3, human3), 3)
    IN  IF Pos(dist) THEN Zero ELSE Neg(dist)

\* faulty variant: the y-component is divided in the stored human center
\* itself rather than in a copy of it
proxemics_features_InPlace(waypt, dof, centers) ==
    IF ~ReshapeOk(waypt.v) THEN Eff(Zero, "ValueError", dof, <<>>, waypt, centers)
    ELSE LET q == SetDOFValues(Applied(waypt.v))
             coords == robotToCartesian(q)
         IN  IF "HUMAN_CENTER" \notin DOMAIN centers
             THEN Eff(Zero, "KeyError", q, <<q>>, waypt, centers)
             ELSE Eff(ProxemicsValue(coords[7], centers["HUMAN_CENTER"]),
                      "none", q, <<q>>, waypt,
                      [centers EXCEPT !["HUMAN_CENTER"][2] = @ \div 3])

proxemics_features(waypt, dof, centers) ==
    IF ~ReshapeOk(waypt.v) THEN Eff(Zero, "ValueError", dof, <<>>, waypt, centers)
    ELSE LET q == SetDOFValues(Applied(waypt.v))
             coords == robotToCartesian(q)
         IN  IF "HUMAN_CENTER" \notin DOMAIN centers
             THEN Eff(Zero, "KeyError", q, <<q>>, waypt, centers)
             ELSE Eff(ProxemicsValue(coords[7], centers["HUMAN_CENTER"]),
                      "none", q, <<q>>, waypt, centers)

\* the y and x of the 2-d cross product a x b
Cross2(a, b) == a[1] * b[2] - a[2] * b[1]

\* faulty variant: the first and the last case exchanged
BetweenBranch_Exchanged(dist1, dist2) ==
    IF ~Pos(dist1) /\ ~Pos(dist2) THEN Zero
    ELSE IF ~Pos(dist1) THEN Neg(dist1)
    ELSE IF ~Pos(dist2) THEN Neg(dist2)
    ELSE Neg(RMin(dist1, dist2))

\* lines 426-438: the between term dist1, the proximity term dist2 and the
\* value returned for them
BetweenBranch(dist1, dist2) ==
    IF Pos(dist1) /\ Pos(dist2) THEN Zero
    ELSE IF Pos(dist2) THEN Neg(dist1)
    ELSE IF Pos(dist1) THEN Neg(dist2)
    ELSE Neg(RMin(dist1, dist2))

\* o1angle < pi/2 and o2angle < pi/2 by the law of cosines; a zero
\* denominator gives nan or inf, arccos of it nan, and the comparison False
AngularlyBetween(EE_xy, object1_xy, object2_xy) ==
    LET o1EE == SqNorm2(object1_xy, EE_xy)
        o2EE == SqNorm2(object2_xy, EE_xy)
        o1o2 == SqNorm2(object1_xy, object2_xy)
    IN  /\ o1o2 # 0 /\ o1EE # 0 /\ o2EE # 0
        /\ o1EE + o1o2 - o2EE > 0
        /\ o2EE + o1o2 - o1EE > 0

BetweenTerm(EE_xy, object1_xy, object2_xy) ==
    LET o1o2 == Root(SqNorm2(object1_xy, object2_xy))
        cross == Abs(Cross2(<<object2_xy[1] - object1_xy[1], object2_xy[2] - object1_xy[2]>>,
                            <<object1_xy[1] - EE_xy[1], object1_xy[2] - EE_xy[2]>>))
        dist1 == IF AngularlyBetween(EE_xy, object1_xy, object2_xy)
                 THEN R(cross - ObjectThreshold * o1o2, 0, 0, o1o2)
                 ELSE Zero
    IN  Scale(dist1, 4, 5)

ProximityTerm(EE_xy, object1_xy, object2_xy) ==
    LET o1EE == SqNorm2(object1_xy, EE_xy)
        o2EE == SqNorm2(object2_xy, EE_xy)
    IN  R(-ObjectThreshold, 1, IF o1EE < o2EE THEN o1EE ELSE o2EE, 1)

betweenobjects_features(waypt, dof, centers) ==
    IF ~ReshapeOk(waypt.v) THEN Eff(Zero, "ValueError", dof, <<>>, waypt, centers)
    ELSE LET q == SetDOFValues(Applied(waypt.v))
             coords == robotToCartesian(q)
             EE_coord_xy == coords[7]
         IN  IF {"OBJECT1", "OBJECT2"} \subseteq DOMAIN centers
             THEN Eff(BetweenBranch(
                        BetweenTerm(EE_coord_xy, centers["OBJECT1"], centers["OBJECT2"]),
                        ProximityTerm(EE_coord_xy, centers["OBJECT1"], centers["OBJECT2"])),
                      "none", q, <<q>>, waypt, centers)
             ELSE Eff(Zero, "KeyError", q, <<q>>, waypt, centers)

\* ---- constraints ----

\* faulty variant: a z exactly at the floor passes
TableConstraintValue_AtFloor(EE_coord_z) == IF EE_coord_z >= TABLE_FLOOR THEN 0 ELSE INFEASIBLE

TableConstraintValue(EE_coord_z) == IF EE_coord_z > TABLE_FLOOR THEN 0 ELSE INFEASIBLE

table_constraint(waypt, dof, centers) ==
    IF ~ReshapeOk(waypt.v) THEN Eff(0, "ValueError", dof, <<>>, waypt, centers)
    ELSE LET q == SetDOFValues(Applied(waypt.v))
         IN  Eff(TableConstraintValue(Link10_z(q)), "none", q, <<q>>, waypt, centers)

coffee_constraint(waypt, dof, centers) ==
    IF ~ReshapeOk(waypt.v) THEN Eff(<<>>, "ValueError", dof, <<>>, waypt, centers)
    ELSE LET q == SetDOFValues(Applied(waypt.v))
             Rx == EE_Rx(q)
         IN  Eff(<<Rx[1], Rx[2]>>, "none", q, <<q>>, waypt, centers)

\* ---- raw features ----

\* the order in which object_centers.keys() lists the names
CenterOrder == <<"HUMAN_CENTER", "LAPTOP_CENTER", "OBJECT1", "OBJECT2">>

RECURSIVE ObjectCoordsFrom(_, _)
ObjectCoordsFrom(centers, k) ==
    IF k > Len(CenterOrder) THEN <<>>
    ELSE (IF CenterOrder[k] \in DOMAIN centers THEN centers[CenterOrder[k]] ELSE <<>>)
         \o ObjectCoordsFrom(centers, k + 1)

ObjectCoords(centers) == ObjectCoordsFrom(centers, 1)

raw_features(waypt, dof, centers) ==
    IF waypt.torch
    THEN LET Tall == get_torch_transforms(waypt.v)
         IN  Eff(Tensor(waypt.v \o TorchOrientations(Tall) \o TorchCoords(Tall)
                        \o ObjectCoords(centers)),
                 "none", dof, <<>>, waypt, centers)
    ELSE IF Len(waypt.v) >= 10
    THEN \* waypt_openrave is not bound on this path
         Eff(Zero, "UnboundLocalError", dof, <<>>, waypt, centers)
    ELSE IF Len(waypt.v) # 7
    THEN Eff(Zero, "ValueError", dof, <<>>, waypt, centers)
    ELSE LET waypt_openrave == PadOffset(waypt.v)
             q == SetDOFValues(waypt_openrave)
             coords == robotToCartesian(q)
             orientations == robotToOrientation(q)
         IN  Eff(Nd(waypt.v \o orientations \o Flatten(coords) \o ObjectCoords(centers)),
                 "none", q, <<q, q>>, waypt, centers)

\* LearnedFeature.function of the approximator object obj: a 1 x 1 result
LearnedFunction(obj, x) == << <<Rat(obj + SumSeq(x.v))>> >>

----------------------------------------------------------------------------
(* The Environment object.                                                 *)

VARIABLES
    feature_list,       \* self.feature_list: names, in insertion order
    feature_func_list,  \* self.feature_func_list: the dispatch table
    num_features,       \* self.num_features
    feat_range,         \* self.feat_range: [none |-> TRUE] or [none |-> FALSE, v |-> divisors]
    weights,            \* self.weights
    learned_features,   \* self.learned_features: approximator objects
    object_centers,     \* self.object_centers
    dof,                \* the configuration the robot holds
    call                \* the last call made on the object and what it left

vars == <<feature_list, feature_func_list, num_features, feat_range, weights,
          learned_features, object_centers, dof, call>>

LF == "learned_feature"

\* a bound method of the environment, or the function of an approximator
Method(name) == [fn |-> name, obj |-> 0]
Approximator(obj) == [fn |-> "function", obj |-> obj]

\* self.feature_func_list[feat_idx](waypt)
Invoke(entry, waypt, d, centers) ==
    CASE entry.fn = "table_features" -> table_features(waypt, d, centers)
      [] entry.fn = "coffee_features" -> coffee_features(waypt, d, centers)
      [] entry.fn = "human_features" -> human_features(waypt, d, centers)
      [] entry.fn = "laptop_features" -> laptop_features(waypt, d, centers)
      [] entry.fn = "origin_features" -> origin_features(waypt, d, centers)
      [] entry.fn = "efficiency_features" -> efficiency_features(waypt, d, centers)
      [] entry.fn = "proxemics_features" -> proxemics_features(waypt, d, centers)
      [] entry.fn = "betweenobjects_features" -> betweenobjects_features(waypt, d, centers)
      [] entry.fn = "function" ->
            Eff(LearnedFunction(entry.obj, waypt), "none", d, <<>>, waypt, centers)

\* faulty variant: a learned feature's value is divided by the range too
Normalize_Learned(feat_idx, learned, f, reads, buf) ==
    IF Raised(f) THEN Eff(Zero, f.exc, f.dof, reads, buf, f.centers)
    ELSE IF feat_range.none
    THEN Eff(IF learned THEN f.ret[1][1] ELSE f.ret, "none", f.dof, reads, buf, f.centers)
    ELSE IF feat_idx + 1 > Len(feat_range.v)
    THEN Eff(Zero, "IndexError", f.dof, reads, buf, f.centers)
    ELSE Eff(DivBy(IF learned THEN f.ret[1][1] ELSE f.ret, feat_range.v[feat_idx + 1]),
             "none", f.dof, reads, buf, f.centers)

\* lines 105-110: what featurize_single returns for the value f the
\* dispatched function left; buf is the waypoint buffer the caller holds
Normalize(feat_idx, learned, f, reads, buf) ==
    IF Raised(f) THEN Eff(Zero, f.exc, f.dof, reads, buf, f.centers)
    ELSE IF learned
    THEN IF feature_func_list[feat_idx + 1].fn = "function"
         THEN Eff(f.ret[1][1], "none", f.dof, reads, buf, f.centers)
         ELSE Eff(Zero, "IndexError", f.dof, reads, buf, f.centers)
    ELSE IF feat_range.none
    THEN Eff(f.ret, "none", f.dof, reads, buf, f.centers)
    ELSE IF feat_idx + 1 > Len(feat_range.v)
    THEN Eff(Zero, "IndexError", f.dof, reads, buf, f.centers)
    ELSE Eff(DivBy(f.ret, feat_range.v[feat_idx + 1]), "none",
             f.dof, reads, buf, f.centers)

\* line 104 and after: the function is handed raw.ret, which is the raw
\* vector when the feature is learned and the caller's waypoint otherwise
Dispatch(feat_idx, learned, raw, f) ==
    Normalize(feat_idx, learned, f, raw.reads \o f.reads,
              IF learned THEN raw.waypt ELSE f.waypt)

AfterRaw(feat_idx, learned, raw) ==
    IF Raised(raw) THEN raw
    ELSE IF feat_idx + 1 > Len(feature_func_list)
    THEN Eff(Zero, "IndexError", raw.dof, raw.reads, raw.waypt, raw.centers)
    ELSE Dispatch(feat_idx, learned, raw,
                  Invoke(feature_func_list[feat_idx + 1], raw.ret, raw.dof, raw.centers))

\* featurize_single(waypt, feat_idx), feat_idx counted from 0
featurize_single(waypt, feat_idx, d, centers) ==
    IF feat_idx + 1 > Len(feature_list)
    THEN Eff(Zero, "IndexError", d, <<>>, waypt, centers)
    ELSE IF feature_list[feat_idx + 1] = LF
    THEN AfterRaw(feat_idx, TRUE, raw_features(waypt, d, centers))
    ELSE AfterRaw(feat_idx, FALSE, Eff(waypt, "none", d, <<>>, waypt, centers))

\* np.concatenate((waypts[index+1], waypts[index])): a new array
Concatenate(a, b) == Nd(a.v \o b.v)

\* line 86: features[feat][index] = e, the result of featurize_single; the
\* waypoint it was handed is the trajectory's own buffer unless it was the
\* concatenated pair
Store(acc, feat, index, eff, e) ==
    [features |-> IF Raised(e) THEN acc.features
                  ELSE [acc.features EXCEPT ![feat + 1][index + 1] = e.ret],
     exc |-> e.exc, dof |-> e.dof, reads |-> acc.reads \o e.reads,
     traj |-> IF eff THEN acc.traj ELSE [acc.traj EXCEPT ![index + 2] = e.waypt],
     centers |-> e.centers]

\* faulty variant: waypoint index is evaluated instead of waypoint index+1
Body_OffByOne(acc, feat, index, fi, eff) ==
    Store(acc, feat, index, eff,
          featurize_single(IF eff THEN Concatenate(acc.traj[index + 2], acc.traj[index + 1])
                           ELSE acc.traj[index + 1],
                           fi, acc.dof, acc.centers))

\* lines 83-86 for the feature index fi
Body(acc, feat, index, fi, eff) ==
    Store(acc, feat, index, eff,
          featurize_single(IF eff THEN Concatenate(acc.traj[index + 2], acc.traj[index + 1])
                           ELSE acc.traj[index + 2],
                           fi, acc.dof, acc.centers))

\* one pass of the loop body of featurize: step n fills features[feat][index]
\* with index = n \div K and feat = n % K; acc carries what the steps so far
\* left (features, robot configuration, trajectory buffers) and stops at the
\* first exception
RECURSIVE FeaturizeLoop(_, _, _, _)
FeaturizeLoop(n, total, idx, acc) ==
    IF n >= total \/ acc.exc # "none" THEN acc
    ELSE IF idx[(n % Len(idx)) + 1] + 1 > Len(feature_list)
    THEN [acc EXCEPT !.exc = "IndexError"]
    ELSE FeaturizeLoop(n + 1, total, idx,
            Body(acc, n % Len(idx), n \div Len(idx), idx[(n % Len(idx)) + 1],
                 feature_list[idx[(n % Len(idx)) + 1] + 1] = "efficiency"))

NoIdx == [none |-> TRUE, v |-> <<>>]
Idx(v) == [none |-> FALSE, v |-> v]

DefaultIdx == [k \in 1..num_features |-> k - 1]
Steps(waypts) == IF Len(waypts) >= 1 THEN Len(waypts) - 1 ELSE 0

FeaturizeOver(waypts, idx, d, centers) ==
    FeaturizeLoop(0, Steps(waypts) * Len(idx), idx,
        [features |-> [k \in 1..Len(idx) |-> [t \in 1..Steps(waypts) |-> Zero]],
         exc |-> "none", dof |-> d, reads |-> <<>>, traj |-> waypts, centers |-> centers])

AsEff(out) == Eff(out.features, out.exc, out.dof, out.reads, out.traj, out.centers)

\* featurize(waypts, feat_idx): feat_idx is NoIdx or Idx(list of indices)
featurize(waypts, feat_idx, d, centers) ==
    AsEff(FeaturizeOver(waypts, IF feat_idx.none THEN DefaultIdx ELSE feat_idx.v, d, centers))

----------------------------------------------------------------------------
(* Construction and new_learned_feature.                                   *)

\* the names __init__ knows; it appends the bound method <name>_features
\* for each of them and nothing for any other name
KnownFeatures == {"table", "coffee", "human", "laptop", "origin", "efficiency",
                  "proxemics", "betweenobjects"}

MethodOf(feat) ==
    CASE feat = "table" -> Method("table_features")
      [] feat = "coffee" -> Method("coffee_features")
      [] feat = "human" -> Method("human_features")
      [] feat = "laptop" -> Method("laptop_features")
      [] feat = "origin" -> Method("origin_features")
      [] feat = "efficiency" -> Method("efficiency_features")
      [] feat = "proxemics" -> Method("proxemics_features")
      [] feat = "betweenobjects" -> Method("betweenobjects_features")

RECURSIVE InitialMethods(_)
InitialMethods(feat_list) ==
    IF feat_list = <<>> THEN <<>>
    ELSE (IF Head(feat_list) \in KnownFeatures THEN <<MethodOf(Head(feat_list))>> ELSE <<>>)
         \o InitialMethods(Tail(feat_list))

\* the approximator a blank LearnedFeature(...) is, when it is the k-th made,
\* and the one torch.load returns for a checkpoint
BlankObject(k) == k
Checkpoints == {"ckpt_a"}
LoadedObject(checkpoint_name) == 100

NoCheckpoint == "None"

\* new_learned_feature(nb_layers, nb_units, checkpoint_name): the registry it
\* leaves; torch.load raises for a checkpoint that is not on disk, after the
\* feature list and the weights were extended
new_learned_feature(checkpoint_name) ==
    LET blank == Append(learned_features, BlankObject(Len(learned_features) + 1))
        loads == checkpoint_name # NoCheckpoint
        fails == loads /\ checkpoint_name \notin Checkpoints
        learned == IF loads /\ ~fails
                   THEN [blank EXCEPT ![Len(blank)] = LoadedObject(checkpoint_name)]
                   ELSE blank
    IN  [learned_features |-> learned,
         feature_list |-> Append(feature_list, LF),
         num_features |-> num_features + 1,
         weights |-> Append(weights, 0),
         feature_func_list |->
            IF fails THEN feature_func_list
            ELSE Append(feature_func_list, Approximator(learned[Len(learned)])),
         exc |-> IF fails THEN "IOError" ELSE "none"]

----------------------------------------------------------------------------
(* Inputs.                                                                 *)

MaxLearned == 2
MaxT == 2

AllCenters ==
    [x \in {"HUMAN_CENTER", "LAPTOP_CENTER", "OBJECT1", "OBJECT2"} |->
        CASE x = "HUMAN_CENTER" -> <<-2, 2, 0>>
          [] x = "LAPTOP_CENTER" -> <<0, 2, 0>>
          [] x = "OBJECT1" -> <<0, 5, 0>>
          [] x = "OBJECT2" -> <<6, 5, 0>>]

TwoCenters ==
    [x \in {"HUMAN_CENTER", "LAPTOP_CENTER"} |->
        CASE x = "HUMAN_CENTER" -> <<3, -1, 0>>
          [] x = "LAPTOP_CENTER" -> <<-3, 6, 1>>]

NoRange == [none |-> TRUE, v |-> <<>>]
Ranges(n) == [none |-> FALSE, v |-> [k \in 1..n |-> k + 1]]

\* the task configurations an environment is constructed with
Tasks ==
    { [feat_list |-> <<"table", "efficiency">>, feat_range |-> NoRange,
       object_centers |-> TwoCenters],
      [feat_list |-> <<"efficiency", "laptop", "human", "proxemics">>,
       feat_range |-> Ranges(6), object_centers |-> AllCenters],
      [feat_list |-> <<"betweenobjects", "coffee", "origin", "table">>,
       feat_range |-> Ranges(4), object_centers |-> AllCenters],
      [feat_list |-> <<"coffee", "human">>, feat_range |-> NoRange,
       object_centers |-> AllCenters] }

HomeDof == <<0, 0, 0, 0, 0, 0, 0, 0, 0, 0>>

\* joint vectors of 7 angles <<x, z, y, 0, 0, c, 0>> and of 10 values
Waypt7(x, z, y, c) == Nd(<<x, z, y, 0, 0, c, 0>>)
Home == Waypt7(0, 0, 0, 0)
Reach == Waypt7(3, -1, 0, 1)
Wide == Nd(<<3, 0, 5, 0, 0, 0, 0, 0, 0, 0>>)

WayptPool ==
    { Home, Reach, Waypt7(4, -2, 0, 2), Waypt7(6, -3, 0, 0), Waypt7(7, 0, 0, 3),
      Waypt7(3, 0, -2, 0), Waypt7(3, 0, 3, 0), Wide,
      Nd(<<0, -2, 2, 0, 0, 1, 0, 0, 0, 0>>) }

TensorPool == {Tensor(<<1, 2, 3, 0, 1, 2, 3>>)}

TrajPool == {Home, Reach}

RECURSIVE SeqsOf(_, _)
\* the sequences over S of length exactly n
SeqsOf(S, n) ==
    IF n = 0 THEN {<<>>}
    ELSE {Append(s, x) : s \in SeqsOf(S, n - 1), x \in S}

Trajectories == UNION {SeqsOf(TrajPool \cup {Wide}, n) : n \in 1..MaxT}

\* the feat_idx arguments tried: none, one index, and pairs led by the last
\* index
FeatIdxArgs ==
    {NoIdx} \cup {Idx(<<i>>) : i \in 0..(num_features - 1)}
            \cup {Idx(<<num_features - 1, i>>) : i \in 0..(num_features - 1)}

----------------------------------------------------------------------------
(* The state machine.  The caller is single-threaded: it makes a call,     *)
(* takes what the call returned or raised, and only then makes the next.   *)

Call(op, arg, idx, eff) == [op |-> op, arg |-> arg, idx |-> idx, eff |-> eff]

Idle == Call("idle", <<>>, NoIdx, Eff(0, "none", <<>>, <<>>, <<>>, <<>>))

Init ==
    /\ \E task \in Tasks :
        /\ feature_list = task.feat_list
        /\ feat_range = task.feat_range
        /\ object_centers = task.object_centers
    /\ feature_func_list = InitialMethods(feature_list)
    /\ num_features = Len(feature_list)
    /\ weights = [k \in 1..Len(feature_list) |-> k]
    /\ learned_features = <<>>
    /\ dof = HomeDof
    /\ call = Idle

Registry == <<feature_list, feature_func_list, num_features, feat_range, weights,
              learned_features>>

\* a call that evaluates: it leaves what eff says in the robot and the
\* object-center map, and the registry as it was
Evaluate(op, arg, idx, eff) ==
    /\ call.op = "idle"
    /\ call' = Call(op, arg, idx, eff)
    /\ dof' = eff.dof
    /\ object_centers' = eff.centers
    /\ UNCHANGED Registry

Featurize ==
    \E waypts \in Trajectories, feat_idx \in FeatIdxArgs :
        Evaluate("featurize", waypts, feat_idx,
                 featurize(waypts, feat_idx, dof, object_centers))

FeaturizeSingle(S) ==
    \E waypt \in S, feat_idx \in 0..(num_features - 1) :
        /\ waypt.torch => feature_list[feat_idx + 1] = LF
        /\ Evaluate("featurize_single", waypt, Idx(<<feat_idx>>),
                    featurize_single(waypt, feat_idx, dof, object_centers))

RawFeatures(S) ==
    \E waypt \in S :
        Evaluate("raw_features", waypt, NoIdx, raw_features(waypt, dof, object_centers))

GetTorchTransforms(w) ==
    Evaluate("get_torch_transforms", Tensor(w), NoIdx,
             Eff(get_torch_transforms(w), "none", dof, <<>>, Tensor(w), object_centers))

FeatureMethods == {"table_features", "coffee_features", "human_features",
                   "laptop_features", "origin_features", "proxemics_features",
                   "betweenobjects_features"}

\* a direct call of one of the feature functions on a waypoint
FeatureFunction(S) ==
    \E name \in FeatureMethods, waypt \in S :
        Evaluate(name, waypt, NoIdx, Invoke(Method(name), waypt, dof, object_centers))

EfficiencyFeatures(S) ==
    \E a \in S, b \in TrajPool :
        Evaluate("efficiency_features", Concatenate(a, b), NoIdx,
                 efficiency_features(Concatenate(a, b), dof, object_centers))

TableConstraint(S) ==
    \E waypt \in S :
        Evaluate("table_constraint", waypt, NoIdx, table_constraint(waypt, dof, object_centers))

CoffeeConstraint(S) ==
    \E waypt \in S :
        Evaluate("coffee_constraint", waypt, NoIdx, coffee_constraint(waypt, dof, object_centers))

NewLearnedFeature ==
    /\ call.op = "idle"
    /\ Len(learned_features) < MaxLearned
    /\ \E checkpoint_name \in {NoCheckpoint, "missing"} \cup Checkpoints :
        LET r == new_learned_feature(checkpoint_name)
        IN  /\ learned_features' = r.learned_features
            /\ feature_list' = r.feature_list
            /\ num_features' = r.num_features
            /\ weights' = r.weights
            /\ feature_func_list' = r.feature_func_list
            /\ call' = Call("new_learned_feature",
                            [checkpoint_name |-> checkpoint_name,
                             before |-> [feature_list |-> feature_list,
                                         feature_func_list |-> feature_func_list,
                                         weights |-> weights]],
                            NoIdx, Eff(0, r.exc, dof, <<>>, <<>>, object_centers))
            /\ UNCHANGED <<feat_range, object_centers, dof>>

\* update_curr_pos(curr_pos): curr_pos is a 7x1 column of joint angles
update_curr_pos(curr_pos) ==
    <<curr_pos[1][1], curr_pos[2][1], curr_pos[3][1] + PI, curr_pos[4][1],
      curr_pos[5][1], curr_pos[6][1], curr_pos[7][1], 0, 0, 0>>

UpdateCurrPos ==
    \E waypt \in {Waypt7(1, 1, 1, 1)} :
        LET curr_pos == [k \in 1..7 |-> <<waypt.v[k]>>]
            q == SetDOFValues(update_curr_pos(curr_pos))
        IN  /\ call.op = "idle"
            /\ dof' = q
            /\ call' = Call("update_curr_pos", waypt, NoIdx,
                            Eff(0, "none", q, <<>>, waypt, object_centers))
            /\ UNCHANGED <<Registry, object_centers>>

\* the caller takes the result
Return ==
    /\ call.op # "idle"
    /\ call' = Idle
    /\ UNCHANGED <<Registry, object_centers, dof>>

\* the registry and every kind of evaluation, on the trajectory waypoints
Next ==
    \/ NewLearnedFeature
    \/ Featurize
    \/ FeaturizeSingle(TrajPool \cup {Wide} \cup TensorPool)
    \/ RawFeatures(TrajPool \cup {Wide} \cup TensorPool)
    \/ GetTorchTransforms(<<1, 2, 3, 0, 1, 2, 3>>)
    \/ FeatureFunction(TrajPool \cup {Wide})
    \/ EfficiencyFeatures(TrajPool \cup {Wide})
    \/ TableConstraint(TrajPool \cup {Wide})
    \/ CoffeeConstraint(TrajPool \cup {Wide})
    \/ UpdateCurrPos
    \/ Return

Spec == Init /\ [][Next]_vars

\* the feature and constraint functions, on every waypoint of the pool
NextFeatures ==
    \/ FeatureFunction(WayptPool)
    \/ EfficiencyFeatures(WayptPool)
    \/ TableConstraint(WayptPool)
    \/ CoffeeConstraint(WayptPool)
    \/ RawFeatures(WayptPool \cup TensorPool)
    \/ FeaturizeSingle(WayptPool)
    \/ UpdateCurrPos
    \/ Return

SpecFeatures == Init /\ [][NextFeatures]_vars

\* the kinematics alone, over every combination of quarter turns
NextFK ==
    \/ /\ call.op = "idle"
       /\ \E a \in 0..3, b \in 0..3, c \in 0..3, d \in 0..3, e \in 0..3,
             f \in 0..3, g \in 0..3 : GetTorchTransforms(<<a, b, c, d, e, f, g>>)
    \/ Return

SpecFK == Init /\ [][NextFK]_vars

----------------------------------------------------------------------------
(* Claims.                                                                 *)

Result == call.eff.ret
Returned == call.eff.exc = "none"

\* x * k = y for reals x, y and an integer k > 0
TimesEq(x, k, y) ==
    /\ x.p * k * y.q = y.p * x.q
    /\ x.s * x.r * k * k * y.q * y.q = y.s * y.r * x.q * x.q

\* ---- C1 ----

C1_Idx == IF call.idx.none THEN [k \in 1..Len(feature_list) |-> k - 1] ELSE call.idx.v
C1_Waypt(k, t) ==
    IF feature_list[C1_Idx[k] + 1] = "efficiency"
    THEN Concatenate(call.arg[t + 2], call.arg[t + 1])
    ELSE call.arg[t + 2]
C1_Cell(k, t) == featurize_single(C1_Waypt(k, t), C1_Idx[k], HomeDof, object_centers)

C2_Idx == call.idx.v[1]
C2_Learned == feature_list[C2_Idx + 1] = LF
C2_Raw == IF C2_Learned THEN raw_features(call.arg, HomeDof, object_centers)
          ELSE Eff(call.arg, "none", HomeDof, <<>>, call.arg, object_centers)
C2_Value == Invoke(feature_func_list[C2_Idx + 1], C2_Raw.ret, HomeDof, object_centers)

\* C2: featurize_single divides the value of an analytic feature by that
\* feature's normalization range when a range is configured, returns it
\* undivided when none is, and for the learned-feature marker returns the
\* approximator's unwrapped scalar, never normalized, whatever the range; it
\* raises only when the raw features, the dispatch or the function raise.
C2_Normalization ==
    call.op = "featurize_single" =>
        IF Raised(C2_Raw) \/ C2_Idx + 1 > Len(feature_func_list)
        THEN ~Returned
        ELSE IF Raised(C2_Value) THEN ~Returned
        ELSE /\ Returned
             /\ C2_Learned => Result = C2_Value.ret[1][1]
             /\ (~C2_Learned /\ feat_range.none) => Result = C2_Value.ret
             /\ (~C2_Learned /\ ~feat_range.none) =>
                    TimesEq(Result, feat_range.v[C2_Idx + 1], C2_Value.ret)

C2_Witness ==
    /\ call.op = "featurize_single" /\ Returned
    /\ C2_Learned /\ ~feat_range.none /\ C2_Idx + 1 <= Len(feat_range.v)
    /\ Result = C2_Value.ret[1][1]

\* ---- C3 ----

C3_Trajectory == <<Home, Reach>>
C3_DefaultRows == featurize(C3_Trajectory, NoIdx, dof, object_centers)

C3_Before == call.arg.before

\* C3: each successful new_learned_feature call on a registry with N features
\* yields N+1 feature entries, N+1 dispatch entries and N+1 weights, the new
\* entry last in all three, the new weight 0, the first N of each unchanged,
\* and the default featurize output has one row more than the N it had.
C3_AppendExtendsAll ==
    (call.op = "new_learned_feature" /\ Returned) =>
        LET N == Len(C3_Before.feature_list)
        IN  /\ Len(feature_list) = N + 1
            /\ Len(feature_func_list) = N + 1
            /\ Len(weights) = N + 1
            /\ feature_list[N + 1] = LF
            /\ feature_func_list[N + 1]
                  = Approximator(learned_features[Len(learned_features)])
            /\ weights[N + 1] = 0
            /\ SubSeq(feature_list, 1, N) = C3_Before.feature_list
            /\ SubSeq(feature_func_list, 1, N) = C3_Before.feature_func_list
            /\ SubSeq(weights, 1, N) = C3_Before.weights
            /\ ~Raised(C3_DefaultRows)
            /\ Len(C3_DefaultRows.ret) = N + 1

\* ---- C4 ----

\* C4: the feature list, the dispatch table and the weight vector always have
\* the same length, num_features, also after a new_learned_feature call that
\* fails while loading the checkpoint.
C4_SameLength ==
    /\ Len(feature_list) = num_features
    /\ Len(feature_func_list) = num_features
    /\ Len(weights) = num_features

\* ---- C5 ----

\* the end-effector's position for the waypoint vector v, from the claim's
\* side: the configuration applied is v padded and offset if shorter than 10
EEOf(v) == robotToCartesian(Applied(v))[7]

C5_Ops == {"laptop_features", "human_features", "proxemics_features"}
C5_Target(op) ==
    IF op = "laptop_features" THEN object_centers["LAPTOP_CENTER"]
    ELSE object_centers["HUMAN_CENTER"]
C5_Threshold(op) ==
    CASE op = "laptop_features" -> LaptopThreshold
      [] op = "human_features" -> HumanThreshold
      [] op = "proxemics_features" -> ProxemicsThreshold
\* the square of the xy-distance in cells; for proxemics the square of three
\* times the distance after both y-components were divided by 3
C5_Dist2(op, v) ==
    LET EE == EEOf(v)
        target == C5_Target(op)
    IN  IF op = "proxemics_features"
        THEN 9 * (EE[1] - target[1]) * (EE[1] - target[1])
               + (EE[2] - target[2]) * (EE[2] - target[2])
        ELSE SqNorm2(EE, target)
C5_Scale(op) == IF op = "proxemics_features" THEN 3 ELSE 1
C5_Limit2(op) ==
    C5_Scale(op) * C5_Scale(op) * C5_Threshold(op) * C5_Threshold(op)
C5_Other(op, waypt) == Invoke(Method(op), waypt, HomeDof, object_centers).ret

\* C5: laptop_features (threshold 0.3), human_features (0.4) and
\* proxemics_features (0.3, y-components divided by 3) return exactly 0
\* when the (scaled) xy-distance to the target equals or exceeds the
\* threshold, and otherwise threshold - distance, which is strictly positive
\* and strictly larger for every waypoint that is strictly nearer.
C5_ThresholdedProximity ==
    (call.op \in C5_Ops /\ Returned) =>
        LET op == call.op
            d2 == C5_Dist2(op, call.arg.v)
        IN  IF d2 >= C5_Limit2(op)
            THEN IsZero(Result)
            ELSE /\ SameReal(Result,
                             R(C5_Scale(op) * C5_Threshold(op), -1, d2, C5_Scale(op)))
                 /\ Pos(Result)
                 /\ \A other \in WayptPool :
                        C5_Dist2(op, other.v) < d2 => Less(Result, C5_Other(op, other))

C5_Witness ==
    /\ call.op = "proxemics_features" /\ Returned
    /\ SqNorm2(EEOf(call.arg.v), object_centers["HUMAN_CENTER"])
          >= ProxemicsThreshold * ProxemicsThreshold
    /\ C5_Dist2(call.op, call.arg.v) < C5_Limit2(call.op)
    /\ Pos(Result)

\* ---- C6 ----

C6_Between ==
    BetweenTerm(EEOf(call.arg.v), object_centers["OBJECT1"], object_centers["OBJECT2"])
C6_Proximity ==
    ProximityTerm(EEOf(call.arg.v), object_centers["OBJECT1"], object_centers["OBJECT2"])

\* C6 as stated: betweenobjects_features returns 0 if both terms are
\* non-positive, the negative of the between term if only the proximity
\* term is positive, the negative of the proximity term if only the between
\* term is positive, otherwise the negative of the minimum of the two.
C6_AsStated ==
    (call.op = "betweenobjects_features" /\ Returned) =>
        /\ (~Pos(C6_Between) /\ ~Pos(C6_Proximity)) => IsZero(Result)
        /\ (~Pos(C6_Between) /\ Pos(C6_Proximity)) => SameReal(Result, Neg(C6_Between))
        /\ (Pos(C6_Between) /\ ~Pos(C6_Proximity)) => SameReal(Result, Neg(C6_Proximity))
        /\ (Pos(C6_Between) /\ Pos(C6_Proximity)) =>
               SameReal(Result, Neg(RMin(C6_Between, C6_Proximity)))

\* C6: betweenobjects_features returns 0 if both terms are positive, the
\* negative of the between term if only the proximity term is positive, the
\* negative of the proximity term if only the between term is positive,
\* otherwise (both non-positive) the negative of the minimum of the two.
C6_Branch ==
    (call.op = "betweenobjects_features" /\ Returned) =>
        /\ (Pos(C6_Between) /\ Pos(C6_Proximity)) => IsZero(Result)
        /\ (~Pos(C6_Between) /\ Pos(C6_Proximity)) => SameReal(Result, Neg(C6_Between))
        /\ (Pos(C6_Between) /\ ~Pos(C6_Proximity)) => SameReal(Result, Neg(C6_Proximity))
        /\ (~Pos(C6_Between) /\ ~Pos(C6_Proximity)) =>
               SameReal(Result, Neg(RMin(C6_Between, C6_Proximity)))

C6_Witness ==
    /\ call.op = "betweenobjects_features" /\ Returned
    /\ ~Pos(C6_Between) /\ ~Pos(C6_Proximity)
    /\ Pos(Result)

\* ---- C7 ----

C7_Z == Link10_z(Applied(call.arg.v))

\* C7 as stated: table_constraint never raises for a well-formed waypoint
\* and returns 0 if the end-effector's z is below the floor threshold
\* -0.1016 and the sentinel 10000 otherwise.
C7_AsStated ==
    (call.op = "table_constraint" /\ ReshapeOk(call.arg.v)) =>
        /\ Returned
        /\ Result = IF C7_Z < TABLE_FLOOR THEN 0 ELSE INFEASIBLE

\* C7: table_constraint never raises for a well-formed waypoint and returns
\* 0 if the end-effector's z is strictly above the floor threshold -0.1016
\* and the sentinel 10000 otherwise (z at or below it).
C7_AboveFloor ==
    (call.op = "table_constraint" /\ ReshapeOk(call.arg.v)) =>
        /\ Returned
        /\ Result \in {0, INFEASIBLE}
        /\ Result = 0 <=> C7_Z > TABLE_FLOOR
        /\ Result = INFEASIBLE <=> C7_Z <= TABLE_FLOOR

C7_Witness ==
    /\ call.op = "table_constraint" /\ Returned
    /\ C7_Z = TABLE_FLOOR
    /\ Result = INFEASIBLE

\* ---- C8 ----

C8_Evaluations ==
    FeatureMethods \cup {"featurize", "featurize_single", "raw_features",
                         "efficiency_features", "table_constraint",
                         "coffee_constraint"}

\* C8: a featurize, featurize_single, raw_features, feature function or
\* constraint call leaves the caller's waypoint vectors, the object-center
\* map, the feature list, the dispatch table and the weights as they were,
\* whether it returns or raises; efficiency_features leaves the robot's
\* configuration as it was too.
C8_EvaluationFrame ==
    [][(call.op = "idle" /\ call'.op \in C8_Evaluations) =>
          /\ call'.eff.waypt = call'.arg
          /\ object_centers' = object_centers
          /\ feature_list' = feature_list
          /\ feature_func_list' = feature_func_list
          /\ weights' = weights
          /\ (call'.op = "efficiency_features" => dof' = dof)]_vars

C8_Witness ==
    /\ call.op = "proxemics_features" /\ Returned
    /\ Pos(Result)
    /\ call.eff.waypt = call.arg
    /\ dof = Applied(call.arg.v) /\ dof # HomeDof
    /\ object_centers = AllCenters

\* ---- C9 ----

C9_PoseOps == FeatureMethods \cup {"table_constraint", "coffee_constraint", "raw_features"}

C9_Reference ==
    CASE call.op = "table_constraint" -> table_constraint(call.arg, HomeDof, object_centers)
      [] call.op = "coffee_constraint" -> coffee_constraint(call.arg, HomeDof, object_centers)
      [] call.op = "raw_features" -> raw_features(call.arg, HomeDof, object_centers)
      [] OTHER -> Invoke(Method(call.op), call.arg, HomeDof, object_centers)
C9_KeysPresent ==
    CASE call.op = "laptop_features" -> "LAPTOP_CENTER" \in DOMAIN object_centers
      [] call.op \in {"human_features", "proxemics_features"} ->
            "HUMAN_CENTER" \in DOMAIN object_centers
      [] call.op = "betweenobjects_features" ->
            {"OBJECT1", "OBJECT2"} \subseteq DOMAIN object_centers
      [] OTHER -> TRUE

\* C9: every position/orientation feature, both constraints and the numeric
\* path of raw_features apply the waypoint's configuration (padded to 10
\* values with pi added to the 3rd angle when the waypoint has fewer than 10
\* components, as given otherwise) before their first pose read: every pose
\* read observes that configuration, and the value returned is the one
\* returned from any other earlier configuration of the robot.
C9_ConfigurationApplied ==
    (/\ call.op \in C9_PoseOps
     /\ ~call.arg.torch
     /\ ReshapeOk(call.arg.v)
     /\ C9_KeysPresent) =>
        /\ Returned
        /\ call.eff.reads # <<>>
        /\ \A k \in 1..Len(call.eff.reads) : call.eff.reads[k] = Applied(call.arg.v)
        /\ Result = C9_Reference.ret

\* ---- C10 ----

Rot(M) == <<SubSeq(M[1], 1, 3), SubSeq(M[2], 1, 3), SubSeq(M[3], 1, 3)>>
Dot3(a, b) == a[1] * b[1] + a[2] * b[2] + a[3] * b[3]
Orthonormal(A) ==
    \A i, j \in 1..3 : Dot3(A[i], A[j]) = IF i = j THEN 1 ELSE 0
Det3(A) ==
      A[1][1] * (A[2][2] * A[3][3] - A[2][3] * A[3][2])
    - A[1][2] * (A[2][1] * A[3][3] - A[2][3] * A[3][1])
    + A[1][3] * (A[2][1] * A[3][2] - A[2][2] * A[3][1])

\* the joint vector w with the angles after the n-th set to 0
Upto(w, n) == [k \in 1..7 |-> IF k <= n THEN w[k] ELSE 0]

\* C10: for every 7-element joint vector of multiples of pi/2,
\* get_torch_transforms returns exactly 7 link poses in joint order (the
\* first 3 are fixed by the first 3 angles, the first 5 by the first 5),
\* each a rigid transform: its last row is [0,0,0,1] and its 3x3 rotation
\* block is orthonormal with determinant +1.
C10_RigidTransforms ==
    call.op = "get_torch_transforms" =>
        /\ Returned
        /\ Len(Result) = 7
        /\ SubSeq(Result, 1, 3) = SubSeq(get_torch_transforms(Upto(call.arg.v, 3)), 1, 3)
        /\ SubSeq(Result, 1, 5) = SubSeq(get_torch_transforms(Upto(call.arg.v, 5)), 1, 5)
        /\ \A k \in 1..7 :
              /\ Len(Result[k]) = 4
              /\ Result[k][4] = <<0, 0, 0, 1>>
              /\ Orthonormal(Rot(Result[k]))
              /\ Det3(Rot(Result[k])) = 1

C10_Witness ==
    /\ call.op = "get_torch_transforms" /\ Returned
    /\ call.arg.v = <<1, 2, 3, 0, 1, 2, 3>>
    /\ Len(Result) = 7
    /\ Det3(Rot(Result[7])) = 1

====
